---- MODULE Spec2Model ----
(***************************************************************************)
(* A model of the portrait organiser (src/src/main.rs, src/src/args.rs):   *)
(* scan of the downloads tree, removal of duplicate portrait directories,  *)
(* planning of collision-free destination names, the moves, and the        *)
(* cleanup of the target directory.                                        *)
(*                                                                         *)
(* A file name is a sequence of one-character strings, a path a sequence   *)
(* of file names (its components).  The filesystem is a record             *)
(*    dirs     : the set of paths that are directories                     *)
(*    noaccess : the directories the process cannot open (no permission):  *)
(*               they cannot be listed, nothing beneath them can be        *)
(*               reached, and remove_dir_all fails on them                 *)
(*    files    : a function from the paths of the regular files to their   *)
(*               content                                                   *)
(* The std::fs primitives are modelled by what they do on that record.     *)
(* read_dir returns the entries in ascending byte order of their names (an *)
(* order the operating system is free to choose; the model fixes one).     *)
(* A remove_dir_all that fails is modelled as leaving the tree unchanged.  *)
(***************************************************************************)
EXTENDS Integers, Sequences, FiniteSets, TLC

VARIABLES
    fs,                 \* the filesystem
    fs0,                \* history: the filesystem when the process started
    args,               \* args::Args
    pc,                 \* position in main
    dirs,               \* Scan<PortraitDir>.dirs of the downloads scan
    output,             \* Move.output: one Option<PathBuf> per planned entry
    output_set,         \* Move::new's set of the destinations already given
    idx,                \* position of the current for loop in dirs (1-based)
    attempt,            \* Move::new's retry counter
    run_result,         \* "pending", "ok" or "err" (Move::new failed)
    success,            \* run's counters
    failure,
    erased_duplicates,  \* prepare's result
    failed_duplicates,  \* the paths named by "Failed to erase duplicate"
    erased_useless      \* cleanup's result

vars == <<fs, fs0, args, pc, dirs, output, output_set, idx, attempt,
          run_result, success, failure, erased_duplicates, failed_duplicates,
          erased_useless>>

----------------------------------------------------------------------------
(* Program constants *)

MAX_ATTEMPTS_WHEN_NEED_TO_KEEP_ORIGINAL_FILENAME == 1000
MAX_ATTEMPTS_WHEN_NO_NEED_TO_KEEP_ORIGINAL_FILENAME == 1000000

\* The three marker file names of PortraitDir::include and Checksum::from_dir.
SMALL_PNG == <<"S","m","a","l","l",".","p","n","g">>
MEDIUM_PNG == <<"M","e","d","i","u","m",".","p","n","g">>
FULLLENGTH_PNG == <<"F","u","l","l","l","e","n","g","t","h",".","p","n","g">>

\* Option<T>: None is the empty sequence, Some(x) the one-element sequence.
None == <<>>
Some(x) == <<x>>

----------------------------------------------------------------------------
(* Paths (std::path) *)

\* Path::join with a single relative component.
Join(path, name) == Append(path, name)

Parent(path) == SubSeq(path, 1, Len(path) - 1)

FileNameOf(path) == path[Len(path)]

\* Path::starts_with: p is q or an ancestor of q.
IsPrefix(p, q) == Len(p) <= Len(q) /\ SubSeq(q, 1, Len(p)) = p

IsProperPrefix(p, q) == Len(p) < Len(q) /\ SubSeq(q, 1, Len(p)) = p

\* The path q, which lies at or beneath src, after src was renamed to dst.
Rebase(q, src, dst) == dst \o SubSeq(q, Len(src) + 1, Len(q))

----------------------------------------------------------------------------
(* The filesystem primitives *)

\* Every proper ancestor of the path can be searched.
Reachable(f, path) ==
    \A k \in 1..(Len(path) - 1) : SubSeq(path, 1, k) \notin f.noaccess

\* Path::exists: a directory or a file is there, and stat can reach it.
Exists(f, path) ==
    /\ path \in f.dirs \/ path \in DOMAIN f.files
    /\ Reachable(f, path)

\* Path::is_dir
IsDir(f, path) == path \in f.dirs /\ Reachable(f, path)

\* Everything at or beneath the path.
DirsUnder(f, path) == {q \in f.dirs : IsPrefix(path, q)}
FilesUnder(f, path) == {q \in DOMAIN f.files : IsPrefix(path, q)}

\* The byte order of file names, as ranks of the characters the model uses.
Alphabet ==
    <<".", "0", "1", "2", "3", "4", "5", "6", "7", "8", "9",
      "F", "M", "S", "_", "a", "b", "c", "d", "e", "f", "g", "h", "i", "l",
      "m", "n", "p", "t", "u", "x", "y", "z">>

CharRank(c) == CHOOSE i \in 1..Len(Alphabet) : Alphabet[i] = c

\* a sorts before b, or is b
NameLE(a, b) ==
    \/ \E k \in 1..Len(a) :
          /\ k <= Len(b)
          /\ SubSeq(a, 1, k - 1) = SubSeq(b, 1, k - 1)
          /\ CharRank(a[k]) < CharRank(b[k])
    \/ IsPrefix(a, b)

RECURSIVE SortNames(_)
SortNames(S) ==
    IF S = {} THEN <<>>
    ELSE LET m == CHOOSE x \in S : \A y \in S : NameLE(x, y)
         IN  <<m>> \o SortNames(S \ {m})

\* std::fs::read_dir(dir) followed by the filter of scan_dir: the entries of
\* dir that are directories, in listing order; None when dir cannot be listed.
ReadDirDirs(f, dir) ==
    IF ~IsDir(f, dir) \/ dir \in f.noaccess THEN None
    ELSE LET names == {FileNameOf(q) : q \in {r \in f.dirs : Len(r) = Len(dir) + 1 /\ IsPrefix(dir, r)}}
             sorted == SortNames(names)
         IN  Some([i \in 1..Len(sorted) |-> Join(dir, sorted[i])])

\* std::fs::remove_dir_all(path): [ok, fs].  It fails when the path is not
\* there or when a directory at or beneath it cannot be opened.
RemoveDirAll(f, path) ==
    IF \/ ~IsDir(f, path)
       \/ DirsUnder(f, path) \cap f.noaccess # {}
    THEN [ok |-> FALSE, fs |-> f]
    ELSE [ok |-> TRUE,
          fs |-> [dirs |-> f.dirs \ DirsUnder(f, path),
                  noaccess |-> f.noaccess,
                  files |-> [q \in DOMAIN f.files \ FilesUnder(f, path) |-> f.files[q]]]]

\* std::fs::rename(src, dst) of a directory: [ok, fs].
RenameDir(f, src, dst) ==
    IF \/ ~IsDir(f, src)                       \* ENOENT
       \/ src \in f.noaccess                   \* EACCES: cannot rewrite ".."
       \/ IsPrefix(src, dst)                   \* EINVAL: into itself
       \/ ~IsDir(f, Parent(dst))               \* ENOENT
       \/ Parent(dst) \in f.noaccess           \* EACCES
       \/ dst \in DOMAIN f.files               \* ENOTDIR
       \/ /\ dst \in f.dirs                    \* ENOTEMPTY
          /\ DirsUnder(f, dst) \cup FilesUnder(f, dst) # {dst}
    THEN [ok |-> FALSE, fs |-> f]
    ELSE LET movedDirs == DirsUnder(f, src)
             movedFiles == FilesUnder(f, src)
             newFiles == (DOMAIN f.files \ movedFiles) \cup
                         {Rebase(q, src, dst) : q \in movedFiles}
         IN  [ok |-> TRUE,
              fs |-> [dirs |-> (f.dirs \ movedDirs) \cup
                               {Rebase(q, src, dst) : q \in movedDirs},
                      noaccess |-> (f.noaccess \ movedDirs) \cup
                               {Rebase(q, src, dst) : q \in f.noaccess \cap movedDirs},
                      files |-> [q \in newFiles |->
                                   IF q \in DOMAIN f.files \ movedFiles
                                   THEN f.files[q]
                                   ELSE f.files[src \o SubSeq(q, Len(dst) + 1, Len(q))]]]]

----------------------------------------------------------------------------
(* ScanDir: the two classifiers *)

\* PortraitDir::include
PortraitDir_include(f, path) ==
    /\ Exists(f, Join(path, SMALL_PNG))
    /\ Exists(f, Join(path, MEDIUM_PNG))
    /\ Exists(f, Join(path, FULLLENGTH_PNG))

\* NonPortraitDir::include
NonPortraitDir_include(f, path) == ~PortraitDir_include(f, path)

\* The dispatch on Scan's type parameter T: ScanDir.
Include(kind, f, path) ==
    IF kind = "PortraitDir" THEN PortraitDir_include(f, path)
    ELSE NonPortraitDir_include(f, path)

----------------------------------------------------------------------------
(* Checksum *)

\* md5::compute of a file content: a digest, equal for equal contents.
Md5(content) == <<"md5", content>>

\* Checksum::check_file: File::open and read_to_end; None when the file is not
\* there, cannot be reached, or is a directory (read_to_end fails on it).
Checksum_check_file(f, file) ==
    IF file \in DOMAIN f.files /\ Reachable(f, file)
    THEN Some(Md5(f.files[file]))
    ELSE None

\* Checksum::from_dir
Checksum_from_dir(f, dir) ==
    LET small == Checksum_check_file(f, Join(dir, SMALL_PNG))
        medium == Checksum_check_file(f, Join(dir, MEDIUM_PNG))
        full == Checksum_check_file(f, Join(dir, FULLLENGTH_PNG))
    IN  IF small = None \/ medium = None \/ full = None THEN None
        ELSE Some([small |-> small[1], medium |-> medium[1], full |-> full[1]])

----------------------------------------------------------------------------
(* Scan *)

RECURSIVE ConcatAll(_)
\* The concatenation of a sequence of sequences.
ConcatAll(ss) == IF ss = <<>> THEN <<>> ELSE Head(ss) \o ConcatAll(Tail(ss))

RECURSIVE Scan_scan_dir_children_first(_, _, _)
\* Scan::scan_dir with a fault: an entry is scanned before the qualifying
\* entries of its directory are pushed.
Scan_scan_dir_children_first(kind, f, dir) ==
    LET contents == ReadDirDirs(f, dir)
    IN  IF contents = None THEN <<>>
        ELSE LET dirs_to_scan == contents[1]
             IN  ConcatAll([i \in 1..Len(dirs_to_scan) |->
                               Scan_scan_dir_children_first(kind, f, dirs_to_scan[i])])
                 \o SelectSeq(dirs_to_scan, LAMBDA path : Include(kind, f, path))

RECURSIVE Scan_scan_dir_pruning(_, _, _)
\* Scan::scan_dir with a fault: an entry that qualifies is not scanned.
Scan_scan_dir_pruning(kind, f, dir) ==
    LET contents == ReadDirDirs(f, dir)
    IN  IF contents = None THEN <<>>
        ELSE LET dirs_to_scan == contents[1]
             IN  SelectSeq(dirs_to_scan, LAMBDA path : Include(kind, f, path))
                 \o ConcatAll([i \in 1..Len(dirs_to_scan) |->
                                  IF Include(kind, f, dirs_to_scan[i]) THEN <<>>
                                  ELSE Scan_scan_dir_pruning(kind, f, dirs_to_scan[i])])

RECURSIVE Scan_scan_dir(_, _, _)
\* Scan::scan_dir: what one call appends to self.dirs.  The entries of dir that
\* qualify are pushed in listing order, then each entry is scanned in turn.
Scan_scan_dir(kind, f, dir) ==
    LET contents == ReadDirDirs(f, dir)
    IN  IF contents = None THEN <<>>
        ELSE LET dirs_to_scan == contents[1]
             IN  SelectSeq(dirs_to_scan, LAMBDA path : Include(kind, f, path))
                 \o ConcatAll([i \in 1..Len(dirs_to_scan) |->
                                  Scan_scan_dir(kind, f, dirs_to_scan[i])])

\* Scan::new with a fault: the root itself is tested and pushed.
Scan_new_with_root(kind, f, root) ==
    (IF IsDir(f, root) /\ Include(kind, f, root) THEN <<root>> ELSE <<>>)
    \o Scan_scan_dir(kind, f, root)

\* Scan::new: the dirs of the scan of root.
Scan_new(kind, f, root) == Scan_scan_dir(kind, f, root)

\* The iteration of erase with a fault: a failed removal is counted too.
EraseOne_CountsFailures(acc, dir) ==
    [fs |-> RemoveDirAll(acc.fs, dir).fs, erased |-> acc.erased + 1]

\* One iteration of the for loop of Scan<NonPortraitDir>::erase.
EraseOne(acc, dir) ==
    LET r == RemoveDirAll(acc.fs, dir)
    IN  IF ~r.ok THEN acc
        ELSE [fs |-> r.fs, erased |-> acc.erased + 1]

RECURSIVE EraseFrom(_, _, _)
EraseFrom(acc, ds, i) ==
    IF i > Len(ds) THEN acc ELSE EraseFrom(EraseOne(acc, ds[i]), ds, i + 1)

\* Scan<NonPortraitDir>::erase: [fs, erased]
Scan_erase(f, ds) == EraseFrom([fs |-> f, erased |-> 0], ds, 1)

\* The retain closure with a fault: HashSet::remove in place of contains, so
\* a fingerprint is forgotten when a duplicate of it is found.
RetainOne_remove(acc, dir) ==
    LET checksum == Checksum_from_dir(acc.fs, dir)
    IN  IF checksum = None
        THEN [acc EXCEPT !.kept = Append(@, dir)]
        ELSE IF checksum[1] \in acc.checksums
        THEN LET r == RemoveDirAll(acc.fs, dir)
             IN  [acc EXCEPT !.fs = r.fs,
                             !.erased = IF r.ok THEN @ + 1 ELSE @,
                             !.failed = IF r.ok THEN @ ELSE @ \cup {dir},
                             !.checksums = @ \ {checksum[1]}]
        ELSE [acc EXCEPT !.checksums = @ \cup {checksum[1]},
                         !.kept = Append(@, dir)]

\* The retain closure with a fault: a duplicate whose removal failed stays in
\* the result set.
RetainOne_keeps_on_failure(acc, dir) ==
    LET checksum == Checksum_from_dir(acc.fs, dir)
    IN  IF checksum = None
        THEN [acc EXCEPT !.kept = Append(@, dir)]
        ELSE IF checksum[1] \in acc.checksums
        THEN LET r == RemoveDirAll(acc.fs, dir)
             IN  IF ~r.ok THEN [acc EXCEPT !.kept = Append(@, dir),
                                               !.failed = @ \cup {dir}]
                 ELSE [acc EXCEPT !.fs = r.fs, !.erased = @ + 1]
        ELSE [acc EXCEPT !.checksums = @ \cup {checksum[1]},
                         !.kept = Append(@, dir)]

\* The closure given to retain in erase_duplicates, applied to one entry.
\* acc: [fs, checksums, kept, erased, failed]; failed holds the entries named
\* by the diagnostic "Failed to erase duplicate".
RetainOne(acc, dir) ==
    LET checksum == Checksum_from_dir(acc.fs, dir)
    IN  IF checksum = None
        THEN [acc EXCEPT !.kept = Append(@, dir)]
        ELSE IF checksum[1] \in acc.checksums
        THEN LET r == RemoveDirAll(acc.fs, dir)
             IN  IF ~r.ok THEN [acc EXCEPT !.failed = @ \cup {dir}]
                 ELSE [acc EXCEPT !.fs = r.fs, !.erased = @ + 1]
        ELSE [acc EXCEPT !.checksums = @ \cup {checksum[1]},
                         !.kept = Append(@, dir)]

RECURSIVE RetainFrom(_, _, _)
RetainFrom(acc, ds, i) ==
    IF i > Len(ds) THEN acc ELSE RetainFrom(RetainOne(acc, ds[i]), ds, i + 1)

\* Scan<PortraitDir>::erase_duplicates: [fs, checksums, kept, erased, failed];
\* kept is self.dirs afterwards.
Scan_erase_duplicates(f, ds) ==
    RetainFrom([fs |-> f, checksums |-> {}, kept |-> <<>>, erased |-> 0,
                failed |-> {}], ds, 1)

----------------------------------------------------------------------------
(* OriginalFileName and the destination names *)

\* OriginalFileName::stripped with a fault: an if in place of the while.
OriginalFileName_stripped_once(file_name, dir_prefix) ==
    IF /\ Len(file_name) >= Len(dir_prefix)
       /\ SubSeq(file_name, 1, Len(dir_prefix)) = dir_prefix
    THEN SubSeq(file_name, Len(dir_prefix) + 1, Len(file_name))
    ELSE file_name

RECURSIVE OriginalFileName_stripped(_, _)
\* OriginalFileName::stripped: the while loop removes the prefix from the front
\* of the name for as long as the name begins with it.
OriginalFileName_stripped(file_name, dir_prefix) ==
    IF /\ Len(file_name) >= Len(dir_prefix)
       /\ SubSeq(file_name, 1, Len(dir_prefix)) = dir_prefix
    THEN OriginalFileName_stripped(
             SubSeq(file_name, Len(dir_prefix) + 1, Len(file_name)), dir_prefix)
    ELSE file_name

\* OriginalFileName::new: None when no component is left after the skip.
OriginalFileName_new(dir_prefix, scan_skip_components, dir) ==
    LET dir_components == SubSeq(dir, scan_skip_components + 1, Len(dir))
    IN  IF dir_components = <<>> THEN None
        ELSE Some([dir_components |-> SubSeq(dir_components, 1, Len(dir_components) - 1),
                   file_name |-> OriginalFileName_stripped(
                                     dir_components[Len(dir_components)], dir_prefix)])

DigitChars == <<"0", "1", "2", "3", "4", "5", "6", "7", "8", "9">>

RECURSIVE Decimal(_)
Decimal(n) ==
    IF n < 10 THEN <<DigitChars[n + 1]>>
    ELSE Decimal(n \div 10) \o <<DigitChars[(n % 10) + 1]>>

\* format!("{:0w}", n): the decimal digits of n, zero-padded to at least w.
FormatPadded(n, w) ==
    LET ds == Decimal(n)
    IN  [i \in 1..(IF Len(ds) < w THEN w - Len(ds) ELSE 0) |-> "0"] \o ds

\* The underscore-terminated components pushed by the for loop of rename.
RECURSIVE JoinedComponents(_)
JoinedComponents(cs) ==
    IF cs = <<>> THEN <<>>
    ELSE Head(cs) \o <<"_">> \o JoinedComponents(Tail(cs))

\* Move::rename with a fault: the counter is appended without zero padding.
Move_rename_unpadded(target, dir_prefix, n, original_filename) ==
    LET new_filename ==
            IF original_filename # None
            THEN dir_prefix
                 \o JoinedComponents(original_filename[1].dir_components)
                 \o original_filename[1].file_name
                 \o (IF n > 0 THEN <<"_">> \o Decimal(n) ELSE <<>>)
            ELSE dir_prefix \o FormatPadded(n, 6)
    IN  Join(target, new_filename)

\* Move::rename; n is its parameter attempt, original_filename an Option.
Move_rename(target, dir_prefix, n, original_filename) ==
    LET new_filename ==
            IF original_filename # None
            THEN dir_prefix
                 \o JoinedComponents(original_filename[1].dir_components)
                 \o original_filename[1].file_name
                 \o (IF n > 0 THEN <<"_">> \o FormatPadded(n, 3) ELSE <<>>)
            ELSE dir_prefix \o FormatPadded(n, 6)
    IN  Join(target, new_filename)

\* Taken with a fault: the claimed set is not consulted.
Taken_DiskOnly(f, claimed, r) == Exists(f, r)

\* Taken with a fault: the disk is not consulted.
Taken_ClaimedOnly(f, claimed, r) == r \in claimed

\* The test of the retry loop of Move::new: the candidate r is taken, by a
\* destination given earlier in this run (claimed) or on disk.
Taken(f, claimed, r) == r \in claimed \/ Exists(f, r)

\* Move::new, one step of its for loop over scan.dirs at entry st.idx: either
\* the entry has no original file name (push None, continue), or one pass of
\* the retry loop with the counter st.attempt.
\* st: [output, output_set, idx, attempt]
Move_new_step(st, f, scan_root, scan_dirs, target, dir_prefix, keep_original_path) ==
    LET dir == scan_dirs[st.idx]
        scan_skip_components == Len(scan_root)
        original_filename ==
            IF keep_original_path
            THEN OriginalFileName_new(dir_prefix, scan_skip_components, dir)
            ELSE None
        max_attempts ==
            IF keep_original_path
            THEN MAX_ATTEMPTS_WHEN_NEED_TO_KEEP_ORIGINAL_FILENAME
            ELSE MAX_ATTEMPTS_WHEN_NO_NEED_TO_KEEP_ORIGINAL_FILENAME
        rename == Move_rename(target, dir_prefix, st.attempt, original_filename)
    IN  IF keep_original_path /\ original_filename = None
        THEN [st EXCEPT !.output = Append(@, None), !.idx = @ + 1, !.attempt = 0]
        ELSE IF ~Taken(f, st.output_set, rename)
        THEN [output |-> Append(st.output, Some(rename)),
              output_set |-> st.output_set \cup {rename},
              idx |-> st.idx + 1,
              attempt |-> 0]
        ELSE IF st.attempt + 1 >= max_attempts
        THEN [st EXCEPT !.output = Append(@, None), !.idx = @ + 1, !.attempt = 0]
        ELSE [st EXCEPT !.attempt = @ + 1]

----------------------------------------------------------------------------
(* The initial filesystems and arguments *)

\* The number of distinct marker file contents.
NumContents == 2

DOWNLOADS == << <<"d">> >>
TARGET == << <<"t">> >>
PREFIX == <<"p">>

\* What a directory of the initial tree is: not there, a complete portrait
\* set whose three files hold content k, a set without Fulllength.png, a set
\* whose Small.png is a directory, or a directory that cannot be opened.
CompleteKinds == {<<"complete", k>> : k \in 1..NumContents}
Kinds ==
    {<<"absent", 0>>, <<"incomplete", 0>>, <<"smalldir", 0>>, <<"noaccess", 0>>}
    \cup CompleteKinds

\* The directories and files a directory of that kind brings, as
\* [dirs, noaccess, files], files a set of <<path, content>>.
Fragment(path, kind) ==
    CASE kind[1] = "absent" ->
           [dirs |-> {}, noaccess |-> {}, files |-> {}]
      [] kind[1] = "plain" ->
           [dirs |-> {path}, noaccess |-> {}, files |-> {}]
      [] kind[1] = "noaccess" ->
           [dirs |-> {path}, noaccess |-> {path}, files |-> {}]
      [] kind[1] = "incomplete" ->
           [dirs |-> {path}, noaccess |-> {},
            files |-> {<<Join(path, SMALL_PNG), 1>>, <<Join(path, MEDIUM_PNG), 1>>}]
      [] kind[1] = "smalldir" ->
           [dirs |-> {path, Join(path, SMALL_PNG)}, noaccess |-> {},
            files |-> {<<Join(path, MEDIUM_PNG), 1>>, <<Join(path, FULLLENGTH_PNG), 1>>}]
      [] kind[1] = "complete" ->
           [dirs |-> {path}, noaccess |-> {},
            files |-> {<<Join(path, SMALL_PNG), kind[2]>>,
                       <<Join(path, MEDIUM_PNG), kind[2]>>,
                       <<Join(path, FULLLENGTH_PNG), kind[2]>>}]

\* The filesystem made of a set of fragments.
MakeFs(frags) ==
    LET pairs == UNION {g.files : g \in frags}
    IN  [dirs |-> UNION {g.dirs : g \in frags},
         noaccess |-> UNION {g.noaccess : g \in frags},
         files |-> [q \in {e[1] : e \in pairs} |->
                       (CHOOSE e \in pairs : e[1] = q)[2]]]

\* The directories of the initial trees.  Downloads d holds a, a/x, ppa (its
\* name begins with the prefix twice), ppa/pb and ppa/pb/z; the target t holds
\* p000000, pa and pa/n.
DIR_A == Join(DOWNLOADS, <<"a">>)
DIR_A_X == Join(DIR_A, <<"x">>)
DIR_PPA == Join(DOWNLOADS, <<"p", "p", "a">>)
DIR_PPA_PB == Join(DIR_PPA, <<"p", "b">>)
DIR_PPA_PB_Z == Join(DIR_PPA_PB, <<"z">>)
T_P000000 == Join(TARGET, PREFIX \o FormatPadded(0, 6))
T_PA == Join(TARGET, PREFIX \o <<"a">>)
T_PA_N == Join(T_PA, <<"n">>)

\* The downloads trees: every kind for a, ppa and ppa/pb; a/x is not there
\* or is a complete set of content 1.
DownloadsTrees ==
    {{Fragment(DOWNLOADS, <<"plain", 0>>), Fragment(DIR_A, c[1]),
      Fragment(DIR_A_X, c[2]), Fragment(DIR_PPA, c[3]),
      Fragment(DIR_PPA_PB, c[4])} :
        c \in {c \in Kinds \X {<<"absent", 0>>, <<"complete", 1>>}
                     \X Kinds \X Kinds :
                  /\ c[1][1] = "absent" => c[2][1] = "absent"
                  /\ c[3][1] = "absent" => c[4][1] = "absent"}}

\* The target trees: no target, an empty target, or a target that holds a
\* complete p000000 and an incomplete pa with a complete pa/n inside.
TargetTrees ==
    {{},
     {Fragment(TARGET, <<"plain", 0>>)},
     {Fragment(TARGET, <<"plain", 0>>), Fragment(T_P000000, <<"complete", 1>>),
      Fragment(T_PA, <<"incomplete", 0>>), Fragment(T_PA_N, <<"complete", 1>>)}}

\* A target in which every name that preserve-relative-path mode can try for
\* a source named a is taken by a file: pa, pa_001, ..., pa_999.
FullTarget ==
    [dirs |-> {TARGET}, noaccess |-> {},
     files |->
        {<<Join(TARGET, PREFIX \o <<"a">>), 1>>}
        \cup {<<Join(TARGET, PREFIX \o <<"a", "_">> \o FormatPadded(n, 3)), 1>> :
                 n \in 1..(MAX_ATTEMPTS_WHEN_NEED_TO_KEEP_ORIGINAL_FILENAME - 1)}]

\* The downloads trees that go with the full target: a complete a, with or
\* without a complete a/x.
FullTargetDownloads ==
    {{Fragment(DOWNLOADS, <<"plain", 0>>), Fragment(DIR_A, c[1]),
      Fragment(DIR_A_X, c[2])} :
        c \in CompleteKinds \X {<<"absent", 0>>, <<"complete", 1>>}}

\* Downloads trees in which ppa/pb cannot be removed: complete sets a, ppa and
\* ppa/pb, and beneath ppa/pb a directory z that cannot be opened.
LockedDownloads ==
    {{Fragment(DOWNLOADS, <<"plain", 0>>), Fragment(DIR_A, c[1]),
      Fragment(DIR_PPA, c[2]), Fragment(DIR_PPA_PB, c[3]),
      Fragment(DIR_PPA_PB_Z, <<"noaccess", 0>>)} :
        c \in CompleteKinds \X CompleteKinds \X CompleteKinds}

\* args::Args as get_matches can deliver it together with the tree it names:
\* the portraits directory is the separate target t, the downloads directory
\* itself, or the directory ppa inside the downloads directory.
InitialRuns ==
    {[fs |-> MakeFs(d \cup t), portraits_dir |-> TARGET] :
        <<d, t>> \in DownloadsTrees \X TargetTrees}
    \cup
    {[fs |-> MakeFs(d \cup {FullTarget}), portraits_dir |-> TARGET] :
        d \in FullTargetDownloads}
    \cup
    {[fs |-> MakeFs(d \cup {Fragment(TARGET, <<"plain", 0>>)}),
      portraits_dir |-> TARGET] : d \in LockedDownloads}
    \cup
    {[fs |-> MakeFs(d), portraits_dir |-> pd] :
        <<d, pd>> \in DownloadsTrees \X {DOWNLOADS, DIR_PPA}}

----------------------------------------------------------------------------
(* main *)

Init ==
    /\ \E r \in InitialRuns, keep \in BOOLEAN, useless \in BOOLEAN, dup \in BOOLEAN :
          /\ fs = r.fs
          /\ args = [downloads_dir |-> DOWNLOADS,
                     portraits_dir |-> r.portraits_dir,
                     prefix |-> PREFIX,
                     keep_original_path |-> keep,
                     remove_useless_dirs |-> useless,
                     remove_duplicate_dirs |-> dup]
    /\ fs0 = fs
    /\ pc = "fetch"
    /\ dirs = <<>>
    /\ output = <<>>
    /\ output_set = {}
    /\ idx = 0
    /\ attempt = 0
    /\ run_result = "pending"
    /\ success = 0
    /\ failure = 0
    /\ erased_duplicates = 0
    /\ failed_duplicates = {}
    /\ erased_useless = 0

\* Args::fetch: assert_is_dir passes for both directories.
Fetch ==
    /\ pc = "fetch"
    /\ IsDir(fs, args.downloads_dir) /\ IsDir(fs, args.portraits_dir)
    /\ pc' = "prepare"
    /\ UNCHANGED <<fs, fs0, args, dirs, output, output_set, idx, attempt,
                   run_result, success, failure, erased_duplicates,
                   erased_useless, failed_duplicates>>

\* Args::fetch: assert_is_dir panics, the process ends.
FetchPanic ==
    /\ pc = "fetch"
    /\ ~(IsDir(fs, args.downloads_dir) /\ IsDir(fs, args.portraits_dir))
    /\ pc' = "panicked"
    /\ UNCHANGED <<fs, fs0, args, dirs, output, output_set, idx, attempt,
                   run_result, success, failure, erased_duplicates,
                   erased_useless, failed_duplicates>>

\* prepare, first statement: Scan::new(downloads_dir, PortraitDir).
PrepareScan ==
    /\ pc = "prepare"
    /\ dirs' = Scan_new("PortraitDir", fs, args.downloads_dir)
    /\ pc' = "dedup"
    /\ UNCHANGED <<fs, fs0, args, output, output_set, idx, attempt,
                   run_result, success, failure, erased_duplicates,
                   erased_useless, failed_duplicates>>

\* prepare, second statement: erase_duplicates when the flag is set.
PrepareEraseDuplicates ==
    /\ pc = "dedup"
    /\ LET r == Scan_erase_duplicates(fs, dirs)
       IN  IF args.remove_duplicate_dirs
           THEN /\ fs' = r.fs /\ dirs' = r.kept
                /\ erased_duplicates' = r.erased
                /\ failed_duplicates' = r.failed
           ELSE /\ UNCHANGED <<fs, dirs, failed_duplicates>>
                /\ erased_duplicates' = 0
    /\ pc' = "run"
    /\ UNCHANGED <<fs0, args, output, output_set, idx, attempt, run_result,
                   success, failure, erased_useless>>

\* RunMoveNew with a fault: when Move::new returns Err the process ends
\* without cleanup.
RunMoveNew_NoCleanupOnErr ==
    /\ pc = "run"
    /\ IF ~IsDir(fs, args.portraits_dir)
       THEN /\ run_result' = "err"
            /\ pc' = "done"
            /\ UNCHANGED <<output, output_set, idx, attempt>>
       ELSE /\ output' = <<>>
            /\ output_set' = {}
            /\ idx' = 1
            /\ attempt' = 0
            /\ pc' = "plan"
            /\ UNCHANGED run_result
    /\ UNCHANGED <<fs, fs0, args, dirs, success, failure, erased_duplicates,
                   erased_useless, failed_duplicates>>

\* run: Move::new is entered; when the target is not a directory it returns
\* Err, main reports (0, 0) and goes on to cleanup.
RunMoveNew ==
    /\ pc = "run"
    /\ IF ~IsDir(fs, args.portraits_dir)
       THEN /\ run_result' = "err"
            /\ pc' = "cleanup"
            /\ UNCHANGED <<output, output_set, idx, attempt>>
       ELSE /\ output' = <<>>
            /\ output_set' = {}
            /\ idx' = 1
            /\ attempt' = 0
            /\ pc' = "plan"
            /\ UNCHANGED run_result
    /\ UNCHANGED <<fs, fs0, args, dirs, success, failure, erased_duplicates,
                   erased_useless, failed_duplicates>>

\* Move::new: one step of the for loop (one pass of the retry loop).
PlanAttempt ==
    /\ pc = "plan"
    /\ idx <= Len(dirs)
    /\ LET st == Move_new_step(
                    [output |-> output, output_set |-> output_set,
                     idx |-> idx, attempt |-> attempt],
                    fs, args.downloads_dir, dirs, args.portraits_dir,
                    args.prefix, args.keep_original_path)
       IN  /\ output' = st.output
           /\ output_set' = st.output_set
           /\ idx' = st.idx
           /\ attempt' = st.attempt
    /\ UNCHANGED <<fs, fs0, args, pc, dirs, run_result, success, failure,
                   erased_duplicates, erased_useless, failed_duplicates>>

\* Move::new returns Ok(Self { scan, output }); run starts its for loop.
PlanReturn ==
    /\ pc = "plan"
    /\ idx > Len(dirs)
    /\ pc' = "move"
    /\ idx' = 1
    /\ UNCHANGED <<fs, fs0, args, dirs, output, output_set, attempt,
                   run_result, success, failure, erased_duplicates,
                   erased_useless, failed_duplicates>>

\* The body of run's for loop with a fault: a rename that failed is not
\* counted.
RunStep_ErrUncounted(f, src, dst, s, fl) ==
    IF dst # None
    THEN LET r == RenameDir(f, src, dst[1])
         IN  IF r.ok
             THEN [fs |-> r.fs, success |-> s + 1, failure |-> fl]
             ELSE [fs |-> f, success |-> s, failure |-> fl]
    ELSE [fs |-> f, success |-> s, failure |-> fl + 1]

\* The body of run's for loop for the pair (src, dst) of mv.iter(), with the
\* counters s and fl: [fs, success, failure].
RunStep(f, src, dst, s, fl) ==
    IF dst # None
    THEN LET r == RenameDir(f, src, dst[1])
         IN  IF r.ok
             THEN [fs |-> r.fs, success |-> s + 1, failure |-> fl]
             ELSE [fs |-> f, success |-> s, failure |-> fl + 1]
    ELSE [fs |-> f, success |-> s, failure |-> fl + 1]

\* run: one iteration of the for loop over mv.iter().
RunRename ==
    /\ pc = "move"
    /\ idx <= Len(dirs)
    /\ LET r == RunStep(fs, dirs[idx], output[idx], success, failure)
       IN  fs' = r.fs /\ success' = r.success /\ failure' = r.failure
    /\ idx' = idx + 1
    /\ UNCHANGED <<fs0, args, pc, dirs, output, output_set, attempt,
                   run_result, erased_duplicates, erased_useless,
                   failed_duplicates>>

\* run: the loop is over, Ok((success, failure)).
RunReturn ==
    /\ pc = "move"
    /\ idx > Len(dirs)
    /\ run_result' = "ok"
    /\ pc' = "cleanup"
    /\ UNCHANGED <<fs, fs0, args, dirs, output, output_set, idx, attempt,
                   success, failure, erased_duplicates, erased_useless,
                   failed_duplicates>>

\* cleanup: [fs, erased]
CleanupResult(f, a) ==
    IF ~a.remove_useless_dirs THEN [fs |-> f, erased |-> 0]
    ELSE Scan_erase(f, Scan_new("NonPortraitDir", f, a.portraits_dir))

\* cleanup, then main prints the counters.
Cleanup ==
    /\ pc = "cleanup"
    /\ LET r == CleanupResult(fs, args)
       IN  fs' = r.fs /\ erased_useless' = r.erased
    /\ pc' = "done"
    /\ UNCHANGED <<fs0, args, dirs, output, output_set, idx, attempt,
                   run_result, success, failure, erased_duplicates,
                   failed_duplicates>>

Next ==
    \/ Fetch
    \/ FetchPanic
    \/ PrepareScan
    \/ PrepareEraseDuplicates
    \/ RunMoveNew
    \/ PlanAttempt
    \/ PlanReturn
    \/ RunRename
    \/ RunReturn
    \/ Cleanup

Spec == Init /\ [][Next]_vars

----------------------------------------------------------------------------
(* Properties *)

\* The indices of the plan entries that were given a destination.
Planned == {i \in DOMAIN output : output[i] # None}

\* The first candidate of Move::new for dirs[i].
FirstCandidate(i) ==
    Move_rename(args.portraits_dir, args.prefix, 0,
                IF args.keep_original_path
                THEN OriginalFileName_new(args.prefix, Len(args.downloads_dir), dirs[i])
                ELSE None)

\* C1: while Move::new plans and when it has planned every entry (no rename
\* has happened yet, so the disk is as it was when planning began), no two
\* plan entries hold the same destination, no destination is on disk
\* (Path::exists), and the claimed set is exactly the set of the destinations
\* given so far: a destination enters it when it is accepted.
C1_PlanUnique ==
    pc = "plan" =>
        /\ \A i, j \in Planned : i # j => output[i][1] # output[j][1]
        /\ \A i \in Planned : ~Exists(fs, output[i][1])
        /\ \A i \in Planned : output[i][1] \notin fs.dirs
                              /\ output[i][1] \notin DOMAIN fs.files
        /\ output_set = {output[i][1] : i \in Planned}

\* C1 witness: a finished plan in which an entry's first candidate was on
\* disk and a later candidate of it was the destination of an earlier entry.
C1_Witness ==
    /\ pc = "plan"
    /\ idx > Len(dirs)
    /\ \E i, j \in Planned :
          /\ j < i
          /\ Exists(fs, FirstCandidate(i))
          /\ \E n \in 1..Len(dirs) :
                output[j][1] =
                    Move_rename(args.portraits_dir, args.prefix, n,
                        OriginalFileName_new(args.prefix, Len(args.downloads_dir), dirs[i]))
          /\ output[i] # output[j]

\* The fingerprints of the scanned directories as they were when the scan ran.
ScannedDirs == Scan_new("PortraitDir", fs0, args.downloads_dir)
ScannedSum(i) == Checksum_from_dir(fs0, ScannedDirs[i])
IsFirstWithSum(i) == \A j \in 1..(i - 1) : ScannedSum(j) # ScannedSum(i)
InDirs(path) == \E k \in DOMAIN dirs : dirs[k] = path

\* C2 (as claimed): after erase_duplicates, of the scanned entries that had a
\* fingerprint, the earliest with each fingerprint is in the result set and
\* on disk, and every later one is out of the result set and off the disk.
C2_FirstSeenWins ==
    (pc = "run" /\ args.remove_duplicate_dirs) =>
        \A i \in DOMAIN ScannedDirs :
            ScannedSum(i) # None =>
                IF IsFirstWithSum(i)
                THEN InDirs(ScannedDirs[i]) /\ ScannedDirs[i] \in fs.dirs
                ELSE ~InDirs(ScannedDirs[i]) /\ ScannedDirs[i] \notin fs.dirs

\* The marker file is there as a regular file.
IsRegularFile(f, path) == path \in DOMAIN f.files /\ Reachable(f, path)

\* C3 (as claimed): a directory is classified CompleteSet exactly when it
\* holds Small.png, Medium.png and Fulllength.png as regular files, and
\* IncompleteSet exactly when it is not.
C3_ClassifierRegularFiles ==
    \A path \in fs.dirs :
        /\ PortraitDir_include(fs, path) <=>
              /\ IsRegularFile(fs, Join(path, SMALL_PNG))
              /\ IsRegularFile(fs, Join(path, MEDIUM_PNG))
              /\ IsRegularFile(fs, Join(path, FULLLENGTH_PNG))
        /\ NonPortraitDir_include(fs, path) <=> ~PortraitDir_include(fs, path)

\* The components of dirs[i] between the downloads root and its leaf, and
\* the leaf.
RelativeDirs(i) == SubSeq(dirs[i], Len(args.downloads_dir) + 1, Len(dirs[i]) - 1)
Leaf(i) == dirs[i][Len(dirs[i])]

RECURSIVE Underscored(_)
\* c1 _ c2 _ ... cn _
Underscored(cs) ==
    IF cs = <<>> THEN <<>>
    ELSE Underscored(SubSeq(cs, 1, Len(cs) - 1)) \o cs[Len(cs)] \o <<"_">>

BeginsWith(name, p) == Len(p) <= Len(name) /\ SubSeq(name, 1, Len(p)) = p

\* The name with the prefix removed once from its front, if it is there.
StrippedOnce(name, p) ==
    IF BeginsWith(name, p) THEN SubSeq(name, Len(p) + 1, Len(name)) ELSE name

\* k copies of p
Copies(p, k) == [n \in 1..(k * Len(p)) |-> p[((n - 1) % Len(p)) + 1]]

\* C4 (as claimed): in preserve-relative-path mode the first candidate of
\* every entry is prefix + c1_..._cn_ + the leaf with the prefix removed once.
C4_PrefixStrippedOnce ==
    (pc = "plan" /\ args.keep_original_path) =>
        \A i \in DOMAIN dirs :
            FirstCandidate(i) =
                Join(args.portraits_dir,
                     args.prefix \o Underscored(RelativeDirs(i))
                     \o StrippedOnce(Leaf(i), args.prefix))

\* C4 (amended): in preserve-relative-path mode the first candidate of every
\* entry is prefix + c1_..._cn_ + rest, where the leaf is k >= 0 copies of the
\* prefix followed by rest and rest does not begin with the prefix: every
\* leading copy of the prefix is removed, and the prefix is put back once.
C4_PrefixStrippedAll ==
    (pc = "plan" /\ args.keep_original_path) =>
        \A i \in DOMAIN dirs :
            \E k \in 0..Len(Leaf(i)) :
                LET rest == SubSeq(Leaf(i), k * Len(args.prefix) + 1, Len(Leaf(i)))
                IN  /\ k * Len(args.prefix) <= Len(Leaf(i))
                    /\ Leaf(i) = Copies(args.prefix, k) \o rest
                    /\ ~BeginsWith(rest, args.prefix)
                    /\ FirstCandidate(i) =
                          Join(args.portraits_dir,
                               args.prefix \o Underscored(RelativeDirs(i)) \o rest)

\* C4 witness: preserve-relative-path mode has planned, with a destination,
\* a leaf that begins with the prefix twice, a leaf that begins with it once
\* and a leaf that does not begin with it.
C4_Witness ==
    /\ pc = "plan"
    /\ args.keep_original_path
    /\ \E i \in Planned :
          BeginsWith(Leaf(i), args.prefix \o args.prefix)
    /\ \E i \in Planned :
          /\ BeginsWith(Leaf(i), args.prefix)
          /\ ~BeginsWith(Leaf(i), args.prefix \o args.prefix)
          /\ RelativeDirs(i) # <<>>
    /\ \E i \in Planned : ~BeginsWith(Leaf(i), args.prefix)

\* The zero-padded 6-digit decimal form of n < 10^6.
SixDigits(n) == [k \in 1..6 |-> DigitChars[((n \div (10 ^ (6 - k))) % 10) + 1]]

\* The sequential name number n in the target.
SequentialName(n) == Join(args.portraits_dir, args.prefix \o SixDigits(n))

OnDisk(path) == path \in fs.dirs \/ path \in DOMAIN fs.files

\* The sequential name number n is free for plan entry i: not on disk and not
\* the destination of an earlier entry.
FreeFor(i, n) ==
    /\ ~OnDisk(SequentialName(n))
    /\ \A j \in 1..(i - 1) : output[j] # Some(SequentialName(n))

\* More numbers than names can be taken.
NumberBound == Cardinality(fs.dirs) + Cardinality(DOMAIN fs.files) + Len(dirs)

\* C5: in sequential mode every planned entry has a destination, and it is
\* prefix + the 6-digit form of the smallest number that is free for it; when
\* nothing lies in the target the k-th entry gets number k - 1.
C5_SequentialSmallestFree ==
    (pc = "plan" /\ ~args.keep_original_path) =>
        \A i \in DOMAIN output :
            /\ output[i] # None
            /\ \E n \in 0..NumberBound :
                  /\ output[i][1] = SequentialName(n)
                  /\ FreeFor(i, n)
                  /\ \A m \in 0..(n - 1) : ~FreeFor(i, m)
            /\ (\A q \in fs.dirs \cup DOMAIN fs.files :
                    ~IsProperPrefix(args.portraits_dir, q))
                  => output[i][1] = SequentialName(i - 1)

\* C5 witness: sequential mode has planned three entries into a target that
\* already held the name number 0.
C5_Witness ==
    /\ pc = "plan"
    /\ ~args.keep_original_path
    /\ Len(output) >= 3
    /\ OnDisk(SequentialName(0))
    /\ output[3] = Some(SequentialName(3))

\* C6 (as claimed): in a run whose planner failed because the target is not
\* a directory, nothing on disk was changed.
C6_NoMutationWhenPlannerFails ==
    run_result = "err" => fs = fs0

\* The cleanup scan of the target.
CleanupScan == Scan_new("NonPortraitDir", fs, args.portraits_dir)

\* The directories beneath the target that the classifier calls IncompleteSet.
IncompleteInTarget ==
    {q \in fs.dirs : IsProperPrefix(args.portraits_dir, q)
                     /\ NonPortraitDir_include(fs, q)}

AncestorsFirst(ds) ==
    \A i, j \in DOMAIN ds : IsProperPrefix(ds[i], ds[j]) => i < j

\* C8: in the result of the downloads scan (CompleteSet classifier) and in
\* the result of the cleanup scan (IncompleteSet classifier) an ancestor's
\* entry comes before the entry of each of its descendants.
C8_AncestorsFirst ==
    /\ pc = "dedup" => AncestorsFirst(dirs)
    /\ pc = "cleanup" => AncestorsFirst(CleanupScan)

\* C8 witness: the downloads scan holds a directory and one of its
\* descendants, and so does the cleanup scan of some run.
C8_Witness ==
    /\ pc = "cleanup"
    /\ \E i, j \in DOMAIN ScannedDirs : IsProperPrefix(ScannedDirs[i], ScannedDirs[j])
    /\ \E i, j \in DOMAIN CleanupScan : IsProperPrefix(CleanupScan[i], CleanupScan[j])

\* C9: erase_duplicates applied to what erase_duplicates left removes no
\* entry, deletes nothing and reports 0.
C9_DedupIdempotent ==
    (pc = "run" /\ args.remove_duplicate_dirs) =>
        LET again == Scan_erase_duplicates(fs, dirs)
        IN  again.kept = dirs /\ again.fs = fs /\ again.erased = 0

\* C9 witness: erase_duplicates has run and erased two directories.
C9_Witness ==
    /\ pc = "run"
    /\ args.remove_duplicate_dirs
    /\ erased_duplicates = 2
    /\ Len(dirs) >= 2

\* C10: the plan has one entry per scanned directory; while run moves,
\* success + failure is the number of entries done; when run returns Ok it is
\* the number of scanned directories; an entry without destination counts as
\* one failure and leaves the disk alone; an entry with a destination counts
\* as one success when its rename succeeded and as one failure when not.
C10_CountersCoverPlan ==
    /\ [](/\ pc = "move" => Len(output) = Len(dirs) /\ success + failure = idx - 1
          /\ run_result = "ok" => success + failure = Len(dirs))
    /\ [][(pc = "move" /\ idx <= Len(dirs)) =>
             IF output[idx] = None
             THEN failure' = failure + 1 /\ success' = success /\ fs' = fs
             ELSE IF RenameDir(fs, dirs[idx], output[idx][1]).ok
             THEN success' = success + 1 /\ failure' = failure
                  /\ dirs[idx] \notin fs'.dirs /\ output[idx][1] \in fs'.dirs
             ELSE failure' = failure + 1 /\ success' = success /\ fs' = fs]_vars

\* C10 witness: run has returned Ok for a plan that held an entry without
\* destination and an entry whose rename succeeded.
C10_Witness ==
    /\ run_result = "ok"
    /\ \E i \in DOMAIN output : output[i] = None
    /\ success >= 1
    /\ failure >= 1

\* C11 (as claimed): after erase_duplicates every scanned entry whose marker
\* files give no fingerprint is in the result set and its directory is on
\* disk, and every entry that left the result set had a fingerprint that an
\* earlier entry had.
C11_UnavailableUntouched ==
    (pc = "run" /\ args.remove_duplicate_dirs) =>
        /\ \A i \in DOMAIN ScannedDirs :
              ScannedSum(i) = None =>
                  InDirs(ScannedDirs[i]) /\ ScannedDirs[i] \in fs.dirs
        /\ \A i \in DOMAIN ScannedDirs :
              ~InDirs(ScannedDirs[i]) =>
                  /\ ScannedSum(i) # None
                  /\ \E j \in 1..(i - 1) : ScannedSum(j) = ScannedSum(i)

\* C12 (as claimed): the cleanup step removes no directory at or beneath the
\* target that the classifier calls CompleteSet.
C12_CleanupKeepsComplete ==
    [][pc = "cleanup" =>
          \A q \in fs.dirs :
              (IsPrefix(args.portraits_dir, q) /\ PortraitDir_include(fs, q))
                  => q \in fs'.dirs]_vars

\* C13 (as claimed): after an erase_duplicates in which no removal failed
\* (every entry that left the result set was counted as erased), every entry
\* of the result set is on disk and a CompleteSet.
C13_RetainedOnDisk ==
    (/\ pc = "run"
     /\ args.remove_duplicate_dirs
     /\ erased_duplicates = Len(ScannedDirs) - Len(dirs)) =>
        \A k \in DOMAIN dirs :
            dirs[k] \in fs.dirs /\ PortraitDir_include(fs, dirs[k])

\* The directory can be opened and listed.
CanList(f, p) == p \in f.dirs /\ p \notin f.noaccess /\ Reachable(f, p)

\* The directories strictly beneath root that satisfy the classifier and whose
\* proper ancestors from root on can all be listed.
Expected(kind, f, root) ==
    {q \in f.dirs :
        /\ IsProperPrefix(root, q)
        /\ Include(kind, f, q)
        /\ \A k \in Len(root)..(Len(q) - 1) : CanList(f, SubSeq(q, 1, k))}

SetOf(ds) == {ds[i] : i \in DOMAIN ds}
NoRepeats(ds) == \A i, j \in DOMAIN ds : i # j => ds[i] # ds[j]

\* C14: the downloads scan and the cleanup scan hold exactly the expected
\* directories, each once.
C14_ScanExact ==
    /\ pc = "dedup" =>
          /\ SetOf(dirs) = Expected("PortraitDir", fs, args.downloads_dir)
          /\ NoRepeats(dirs)
    /\ pc = "cleanup" =>
          /\ SetOf(CleanupScan) = Expected("NonPortraitDir", fs, args.portraits_dir)
          /\ NoRepeats(CleanupScan)

\* C14 witness: the downloads scan held a and a/x (a qualifying directory and
\* its qualifying child), and the cleanup scan holds ppa, which cannot be
\* listed, but not ppa/pb beneath it.
C14_Witness ==
    /\ pc = "cleanup"
    /\ args.portraits_dir = DOWNLOADS
    /\ DIR_A \in SetOf(ScannedDirs) /\ DIR_A_X \in SetOf(ScannedDirs)
    /\ DIR_PPA \in fs.noaccess /\ DIR_PPA_PB \in fs.dirs
    /\ NonPortraitDir_include(fs, DIR_PPA_PB)
    /\ DIR_PPA \in SetOf(CleanupScan)
    /\ DIR_PPA_PB \notin SetOf(CleanupScan)

\* The zero-padded 3-digit decimal form of n < 1000.
ThreeDigits(n) == [k \in 1..3 |-> DigitChars[((n \div (10 ^ (3 - k))) % 10) + 1]]

\* Candidate number n of dirs[i] in preserve-relative-path mode: base for
\* n = 0, base_NNN for n > 0.
Candidate(i, n) ==
    IF n = 0 THEN FirstCandidate(i)
    ELSE Join(Parent(FirstCandidate(i)),
              FileNameOf(FirstCandidate(i)) \o <<"_">> \o ThreeDigits(n))

\* Candidate n of entry i is taken: on disk, or given to an earlier entry.
CandidateTaken(i, n) ==
    \/ OnDisk(Candidate(i, n))
    \/ \E j \in 1..(i - 1) : output[j] = Some(Candidate(i, n))

\* C15: in preserve-relative-path mode an entry is given no destination only
\* when all of its candidates 0..999 are taken, and otherwise the first
\* candidate that is not taken; the retry counter stays below 1000.
C15_RetryWithinBudget ==
    (pc = "plan" /\ args.keep_original_path) =>
        /\ attempt \in 0..999
        /\ \A i \in DOMAIN output :
              IF output[i] = None
              THEN \A n \in 0..999 : CandidateTaken(i, n)
              ELSE \E n \in 0..999 :
                      /\ output[i] = Some(Candidate(i, n))
                      /\ ~CandidateTaken(i, n)
                      /\ \A m \in 0..(n - 1) : CandidateTaken(i, m)

\* C15 witness: a finished plan in preserve-relative-path mode with an entry
\* whose 1000 candidates were all taken and an entry that got a destination.
C15_Witness ==
    /\ pc = "plan"
    /\ args.keep_original_path
    /\ idx > Len(dirs)
    /\ \E i \in DOMAIN output : output[i] = None
    /\ \E i \in DOMAIN output : output[i] # None

AfterDedup == pc \in {"run", "plan", "move", "cleanup", "done"}

CarriedAlong(path) ==
    \E k \in DOMAIN dirs :
        /\ IsProperPrefix(dirs[k], path)
        /\ k \in DOMAIN output
        /\ output[k] # None
        /\ dirs[k] \notin fs.dirs
        /\ Rebase(path, dirs[k], output[k][1]) \in fs.dirs

Rank(p) ==
    CASE p = "fetch" -> 0 [] p = "prepare" -> 1 [] p = "dedup" -> 2
      [] p = "run" -> 3 [] p = "plan" -> 4 [] p = "move" -> 5
      [] p = "cleanup" -> 6 [] p = "done" -> 7 [] p = "panicked" -> 8

\* C17: the phases follow one another in the order scan, duplicate removal,
\* planning, moving, cleanup.  Nothing is planned and nothing on disk has
\* changed before duplicate removal; the disk changes only in the duplicate
\* removal, the move loop and cleanup; destinations are given only while
\* planning, and every entry has been planned when the move loop runs; cleanup
\* starts after the last entry of the move loop or after the planner failed,
\* the run ends only through cleanup, and the cleanup scan judges every
\* destination the mover created by what it holds then.
C17_PhaseOrder ==
    /\ [](/\ pc \in {"fetch", "prepare", "dedup"} => output = <<>> /\ fs = fs0
          /\ pc = "move" => Len(output) = Len(dirs)
          /\ pc \in {"cleanup", "done"} =>
                \/ run_result = "err"
                \/ run_result = "ok" /\ idx > Len(dirs)
          /\ run_result = "err" => pc \in {"cleanup", "done"}
          /\ (pc = "cleanup" /\ CanList(fs, args.portraits_dir)) =>
                \A i \in Planned :
                    output[i][1] \in fs.dirs =>
                        (output[i][1] \in SetOf(CleanupScan)
                            <=> NonPortraitDir_include(fs, output[i][1])))
    /\ [][/\ Rank(pc') >= Rank(pc)
          /\ fs' # fs => pc \in {"dedup", "move", "cleanup"}
          /\ output' # output => pc \in {"run", "plan"}
          /\ dirs' # dirs => pc \in {"prepare", "dedup"}
          /\ pc' = "done" => pc = "cleanup"
          /\ (pc = "cleanup" /\ args.remove_useless_dirs) =>
                fs' = Scan_erase(fs, CleanupScan).fs]_vars

\* C17 witness: a run is over in which duplicates were removed, renames
\* succeeded and cleanup removed directories.
C17_Witness ==
    /\ pc = "done"
    /\ run_result = "ok"
    /\ erased_duplicates >= 1
    /\ success >= 1
    /\ erased_useless >= 1

\* C18: every entry of the downloads scan and of the cleanup scan is strictly
\* beneath its root; in preserve-relative-path mode every entry the planner
\* sees has a component below the root; the cleanup step does not remove the
\* target root.
C18_RootExcluded ==
    /\ [](/\ \A k \in DOMAIN dirs : IsProperPrefix(args.downloads_dir, dirs[k])
          /\ pc = "cleanup" =>
                \A k \in DOMAIN CleanupScan :
                    IsProperPrefix(args.portraits_dir, CleanupScan[k])
          /\ (pc = "plan" /\ args.keep_original_path) =>
                \A i \in DOMAIN dirs :
                    OriginalFileName_new(args.prefix, Len(args.downloads_dir),
                                         dirs[i]) # None)
    /\ [][(pc = "cleanup" /\ args.portraits_dir \in fs.dirs) =>
             args.portraits_dir \in fs'.dirs]_vars

\* C18 witness: a run in preserve-relative-path mode is over, renames
\* succeeded, cleanup removed directories and the target root is there.
C18_Witness ==
    /\ pc = "done"
    /\ args.keep_original_path
    /\ args.remove_useless_dirs
    /\ success >= 1
    /\ erased_useless >= 1
    /\ args.portraits_dir \in fs.dirs

====
